---------------------------- MODULE Spec2Model ----------------------------
(***************************************************************************)
(* Transcript acquisition of src/app.py: the /api/transcript/<video_id>    *)
(* handler get_transcript (a chain of fallback strategies) and the caption *)
(* payload extractor extract_texts.                                        *)
(*                                                                         *)
(* Python strings are sequences of one-character strings.                  *)
(***************************************************************************)
EXTENDS Integers, Sequences, FiniteSets, TLC

(***************************************************************************)
(* Bounds of the model.                                                    *)
(***************************************************************************)
MaxElems == 2
MaxTracks == 2

(***************************************************************************)
(* State of one worker handling requests one after another.                *)
(*   pc          position in get_transcript: "idle", "m1", "m1b", "m2",    *)
(*               "m2dl", "m3", "m3dl", "m4", "m5", "m5dl", "m6", "m6dl",   *)
(*               "done" (mN = before the index call of method N, mNdl =    *)
(*               before the caption download of method N), "blocked" (in   *)
(*               a library call that does not return)                      *)
(*   video_id, debug, logs, c, attempt, api, lang, tracks, track           *)
(*               the locals of get_transcript (c, api, lang as positions   *)
(*               in clients, alt_apis, timedtext_langs; track as position  *)
(*               in tracks; url is sub_url / cap_url)                      *)
(*   response    what the handler returned, [status |-> 0] before it does  *)
(*   calls       the outbound operations of the current attempt, in order  *)
(*   contacted   the methods that issued an outbound call in this request  *)
(*   started     the number of attempts begun in this request              *)
(*   upstream    the upstream answer the last step consumed                *)
(*   branch      the branch the last step took                             *)
(*   onlyNoCaptions  every manifest attempt so far ended "no caption track"*)
(* State of one call of extract_texts on its own.                          *)
(*   xpc         "idle", "call" (entered with payload), "return"           *)
(*   payload     the elements of the caption payload passed as content     *)
(*   lines_out   the list extract_texts returns (its texts)                *)
(* State of the comparison of two requests for one video against the same  *)
(* upstream, one with debug=1 and one without.                             *)
(*   world       what the upstream answers to each attempt                 *)
(*   run         0 (no comparison), 1 (first request), 2 (second request)  *)
(*   first       what the first request did: its calls, logs and response  *)
(*   allcalls    the outbound operations of the current request, in order  *)
(* State of two workers that handle requests at the same time.             *)
(*   workers     for each worker the locals of its call of get_transcript  *)
(*               (video_id, debug, logs), the number k of attempts it has  *)
(*               made, its response, the outcomes fed to its attempts, and *)
(*               whether its previous request ended in the 404             *)
(***************************************************************************)
VARIABLES pc, video_id, debug, logs, c, attempt, api, lang, tracks, track, url,
          response, calls, contacted, started, upstream, branch, onlyNoCaptions,
          xpc, payload, lines_out,
          world, run, first, allcalls,
          workers

(***************************************************************************)
(* String primitives (Python str semantics).                               *)
(***************************************************************************)
Whitespace == {" ", "\n", "\t"}

\* s[i:i+len(pat)] == pat
StartsAt(s, i, pat) ==
    /\ i >= 1
    /\ i + Len(pat) - 1 <= Len(s)
    /\ \A k \in 1..Len(pat) : s[i + k - 1] = pat[k]

\* str.startswith
startswith(s, pat) == StartsAt(s, 1, pat)

\* least position >= i where pat occurs, 0 when there is none (str.find)
Find(s, i, pat) ==
    LET J == {j \in i..Len(s) : StartsAt(s, j, pat)}
    IN  IF J = {} THEN 0 ELSE CHOOSE j \in J : \A k \in J : j <= k

\* s[i:] of Python, for a 1-based i
From(s, i) == SubSeq(s, i, Len(s))

\* str.replace(old, new): leftmost non-overlapping occurrences
RECURSIVE replace(_, _, _)
replace(s, old, new) ==
    LET j == Find(s, 1, old)
    IN  IF j = 0 THEN s
        ELSE SubSeq(s, 1, j - 1) \o new \o replace(From(s, j + Len(old)), old, new)

\* str.strip()
RECURSIVE lstrip(_)
lstrip(s) == IF s # <<>> /\ Head(s) \in Whitespace THEN lstrip(Tail(s)) ELSE s

RECURSIVE rstrip(_)
rstrip(s) ==
    IF s # <<>> /\ s[Len(s)] \in Whitespace THEN rstrip(SubSeq(s, 1, Len(s) - 1)) ELSE s

strip(s) == rstrip(lstrip(s))

\* sep.join(parts)
RECURSIVE join(_, _)
join(sep, parts) ==
    IF parts = <<>> THEN <<>>
    ELSE IF Len(parts) = 1 THEN parts[1]
    ELSE parts[1] \o sep \o join(sep, Tail(parts))

\* ''.join(parts)
RECURSIVE concat(_)
concat(parts) == IF parts = <<>> THEN <<>> ELSE Head(parts) \o concat(Tail(parts))

(***************************************************************************)
(* extract_texts (src/app.py 570-603).                                     *)
(***************************************************************************)
GT == <<">">>
P_OPEN == <<"<", "p", " ">>
P_CLOSE == <<"<", "/", "p", ">">>
S_OPEN == <<"<", "s">>
S_CLOSE == <<"<", "/", "s", ">">>
TEXT_OPEN == <<"<", "t", "e", "x", "t">>
TEXT_CLOSE == <<"<", "/", "t", "e", "x", "t", ">">>

\* re.findall(open [^>]*> ([\s\S]*?) close, s): after the opening literal the
\* greedy [^>]* ends at the first '>', the lazy body at the first closing
\* literal; whole = TRUE returns the matches, FALSE the captured bodies.
RECURSIVE findall(_, _, _, _, _)
findall(s, i, open, close, whole) ==
    LET j == Find(s, i, open)
        g == IF j = 0 THEN 0 ELSE Find(s, j + Len(open), GT)
        e == IF g = 0 THEN 0 ELSE Find(s, g + 1, close)
    IN  IF j = 0 THEN <<>>
        ELSE IF e = 0 THEN findall(s, j + 1, open, close, whole)
        ELSE <<IF whole THEN SubSeq(s, j, e + Len(close) - 1)
                        ELSE SubSeq(s, g + 1, e - 1)>>
             \o findall(s, e + Len(close), open, close, whole)

\* re.findall(r'<p [^>]*>[\s\S]*?</p>', content)
p_matches(content) == findall(content, 1, P_OPEN, P_CLOSE, TRUE)

\* re.findall(r'<s[^>]*>([\s\S]*?)</s>', p)
s_matches(p) == findall(p, 1, S_OPEN, S_CLOSE, FALSE)

\* re.findall(r'<text[^>]*>([\s\S]*?)</text>', content)
text_matches(content) == findall(content, 1, TEXT_OPEN, TEXT_CLOSE, FALSE)

\* re.sub(r'<[^>]+>', '', p): a tag starts at a '<' whose next '>' is at
\* least two characters further
RECURSIVE strip_tags(_)
strip_tags(p) ==
    LET J == {j \in 1..Len(p) : p[j] = "<" /\ Find(p, j + 1, GT) >= j + 2}
        j == CHOOSE j \in J : \A k \in J : j <= k
    IN  IF J = {} THEN p
        ELSE SubSeq(p, 1, j - 1) \o strip_tags(From(p, Find(p, j + 1, GT) + 1))

\* the chain of .replace() calls of lines 583-585 and 595-597
decode(line) ==
    replace(replace(replace(replace(replace(line,
        <<"&", "a", "m", "p", ";">>, <<"&">>),
        <<"&", "l", "t", ";">>, <<"<">>),
        <<"&", "g", "t", ";">>, <<">">>),
        <<"&", "#", "3", "9", ";">>, <<"'">>),
        <<"&", "q", "u", "o", "t", ";">>, <<"\"">>)

\* the line of one <p> block (lines 578-585)
p_line(p) ==
    LET sm == s_matches(p)
    IN  strip(decode(IF sm # <<>> THEN concat(sm) ELSE strip_tags(p)))

\* text_line without the .strip()
text_line_unstripped(t) == decode(t)

\* the line of one <text> element (lines 595-597)
text_line(t) == strip(decode(t))

\* keeps the non-empty lines, in order (the "if line: texts.append(line)" loops)
RECURSIVE non_empty(_)
non_empty(lines) ==
    IF lines = <<>> THEN <<>>
    ELSE (IF Head(lines) # <<>> THEN <<Head(lines)>> ELSE <<>>) \o non_empty(Tail(lines))

\* extract_texts returning the paragraph lines whenever <p> blocks are found,
\* empty or not
extract_texts_no_fallback(content) ==
    LET pm == p_matches(content)
        tm == text_matches(content)
    IN  IF pm # <<>> THEN non_empty([k \in 1..Len(pm) |-> p_line(pm[k])])
        ELSE non_empty([k \in 1..Len(tm) |-> text_line(tm[k])])

extract_texts(content) ==
    LET pm == p_matches(content)
        ptexts == non_empty([k \in 1..Len(pm) |-> p_line(pm[k])])
        tm == text_matches(content)
        ttexts == non_empty([k \in 1..Len(tm) |-> text_line(tm[k])])
    IN  IF pm # <<>> /\ ptexts # <<>> THEN ptexts
        ELSE IF tm # <<>> /\ ttexts # <<>> THEN ttexts
        ELSE <<>>

(***************************************************************************)
(* Upstream payloads.  A caption document is a list of named contents      *)
(* rendered in one of the two markup dialects; the handler only ever sees  *)
(* the rendered characters.                                                *)
(***************************************************************************)
repeat(ch, n) == [k \in 1..n |-> ch]

LongLen == 101

\* the contents an element can have, by name
ContentText ==
    [empty |-> <<>>,
     padded |-> <<" ", "&", "l", "t", ";", "a">>,
     long |-> repeat("x", LongLen)]

Contents == DOMAIN ContentText

RECURSIVE SeqsUpTo(_, _)
SeqsUpTo(S, n) ==
    IF n = 0 THEN {<<>>}
    ELSE LET R == SeqsUpTo(S, n - 1)
         IN  R \cup {Append(r, x) : r \in {q \in R : Len(q) = n - 1}, x \in S}

Docs == [dialect : {"text", "p"}, elems : SeqsUpTo(Contents, MaxElems)]

\* <text>c</text>
RenderText(content) == TEXT_OPEN \o GT \o content \o TEXT_CLOSE

\* <p t>\n<s>c</s></p>
RenderP(content) ==
    P_OPEN \o <<"t">> \o GT \o <<"\n">> \o S_OPEN \o GT \o content \o S_CLOSE \o P_CLOSE

Render(doc) ==
    concat([k \in 1..Len(doc.elems) |->
              IF doc.dialect = "text" THEN RenderText(ContentText[doc.elems[k]])
                                      ELSE RenderP(ContentText[doc.elems[k]])])

\* what extract_texts returns for each rendered document
Extracted == [d \in Docs |-> extract_texts(Render(d))] @@ <<>>

(***************************************************************************)
(* Caption tracks and the selection of one of them.                        *)
(***************************************************************************)
KO == <<"k", "o">>
EN == <<"e", "n">>
FR == <<"f", "r">>
DE == <<"d", "e">>
EN_US == <<"e", "n", "-", "U", "S">>
LanguageCodes == {KO, EN, FR, DE, EN_US}

\* the preference with English first
PREFERRED_en_first == <<EN, KO>>

\* for lang in ['ko', 'en']
PREFERRED == <<KO, EN>>

\* t.get('languageCode') == lang (lines 355, 492, 539)
code_equals(code, lg) == code = lg

\* s.get('code', '').startswith(lang) (lines 401, 426)
code_startswith(code, lg) == startswith(code, lg)

\* the test of one track against lang: exact in the manifest and page
\* methods, by prefix in the mirror method
matches(code, lg, how) ==
    IF how = "startswith" THEN code_startswith(code, lg) ELSE code_equals(code, lg)

\* next((t for t in tracks if <test>), None), as a position; 0 is None
first_match(ts, lg, how) ==
    LET J == {k \in 1..Len(ts) : matches(ts[k], lg, how)}
    IN  IF J = {} THEN 0 ELSE CHOOSE k \in J : \A m \in J : k <= m

\* the loop over ['ko', 'en'] with its break, then the tracks[0] default
select(ts, how) ==
    LET hits == {n \in 1..Len(PREFERRED) : first_match(ts, PREFERRED[n], how) # 0}
    IN  IF hits = {} THEN 1
        ELSE first_match(ts, PREFERRED[CHOOSE n \in hits : \A m \in hits : n <= m], how)

\* lines 353-359 (manifest), 490-496 (embed page), 537-543 (watch page)
select_track(ts) == select(ts, "==")

\* lines 399-405 (Piped), 424-430 (Invidious)
select_sub(subtitles) == select(subtitles, "startswith")

TrackLists == SeqsUpTo(LanguageCodes, MaxTracks)

(***************************************************************************)
(* The registries of get_transcript.                                       *)
(***************************************************************************)
\* the registry with its first two profiles exchanged
clients_swapped == <<"ANDROID", "IOS", "TV_EMBED", "WEB">>

\* clients (lines 256-325), by name
clients == <<"IOS", "ANDROID", "TV_EMBED", "WEB">>

\* range(3)
ATTEMPTS_3 == 2 + 1

\* range(2) of line 328
ATTEMPTS == 2

\* the mirrors with an Invidious instance first
alt_apis_reordered == <<[name |-> "Invidious1", type |-> "invidious"],
                        [name |-> "Piped", type |-> "piped"],
                        [name |-> "Invidious2", type |-> "invidious"],
                        [name |-> "Invidious3", type |-> "invidious"]>>

\* alt_apis (lines 376-381)
alt_apis == <<[name |-> "Piped", type |-> "piped"],
              [name |-> "Invidious1", type |-> "invidious"],
              [name |-> "Invidious2", type |-> "invidious"],
              [name |-> "Invidious3", type |-> "invidious"]>>

\* for lang in ['ko', 'en'] of line 451
timedtext_langs == <<"ko", "en">>

\* the length tests of lines 411/438 and 458, and the text[:200] of debug mode
ALT_MIN_LEN == 50
TIMEDTEXT_MIN_LEN == 100
DEBUG_LEN == 200

VideoIds == {"abc123", "zzz000"}

(***************************************************************************)
(* Upstream answers, the inputs of the steps.                              *)
(***************************************************************************)
RAISE == [kind |-> "raise"]

\* an upstream that accepts the request and never answers
HANG == [kind |-> "hang"]

\* a call made with timeout=10 or timeout=15 (lines 336, 361, 385, 410, 437,
\* 457, 480, 497, 527, 544) raises when the upstream raises or when it never
\* answers
Raises(r) == r.kind \in {"raise", "hang"}

\* YouTubeTranscriptApi: an exception or the fetched items' texts
LibItems == {"empty", "padded", "long"}
LibraryResults ==
    {RAISE, HANG} \cup [kind : {"items"}, items : SeqsUpTo(LibItems, MaxElems)]

\* the answer to an index request (player API, mirror API, embed page, watch
\* page), by what the handler reads of it:
\*   status        res.status_code
\*   json          FALSE: res.json() / json.loads raises
\*   found         FALSE: the page has no embedded player response
\*   playability   playabilityStatus.status
\*   tracks        the language codes of the listed tracks, in order
\*   url           the 'url' of the track a mirror lists: "", relative, absolute
Body(st, js, fd, pl, tr, u) ==
    [kind |-> "body", status |-> st, json |-> js, found |-> fd, playability |-> pl,
     tracks |-> tr, url |-> u]

Common == {RAISE, HANG, Body(403, TRUE, TRUE, "OK", <<>>, ""), Body(200, FALSE, TRUE, "OK", <<>>, "")}

PlayerResults ==
    Common \cup {Body(200, TRUE, TRUE, "LOGIN_REQUIRED", <<>>, ""),
                 Body(200, TRUE, TRUE, "LOGIN_REQUIRED", <<KO>>, "abs"),
                 Body(403, TRUE, TRUE, "LOGIN_REQUIRED", <<KO>>, "abs")}
           \cup {Body(200, TRUE, TRUE, "OK", t, "abs") : t \in TrackLists}

AltResults ==
    Common \cup {Body(200, TRUE, TRUE, "OK", t, u) : t \in TrackLists, u \in {"", "/rel", "abs"}}

PageResults ==
    Common \cup {Body(200, TRUE, FALSE, "OK", <<>>, "")}
           \cup {Body(200, TRUE, TRUE, "OK", t, "abs") : t \in TrackLists}

\* a caption download or a timed-text request
CaptionResults ==
    {RAISE, HANG, [kind |-> "http", status |-> 404, doc |-> [dialect |-> "text", elems |-> <<>>]]}
    \cup [kind : {"body"}, status : {200}, doc : Docs]

\* the rendered characters and the extracted lines of every document
Rendered == [d \in Docs |-> Render(d)] @@ <<>>

\* the state of the handler
hvars == <<pc, video_id, debug, logs, c, attempt, api, lang, tracks, track, url,
           response, calls, contacted, started, upstream, branch, onlyNoCaptions>>

\* the state of the stand-alone extractor call
xvars == <<xpc, payload, lines_out>>

\* the state of the comparison of two requests
rvars == <<world, run, first, allcalls>>

\* the state of the concurrent workers
cvars == <<workers>>

vars == <<hvars, xvars, rvars, cvars>>

NoResponse == [status |-> 0]
NoUpstream == [kind |-> "none"]

\* one element of logs: the method, the client / mirror / language, the
\* attempt number (0 where the message has none), success or not, and the
\* character count of a success message
Entry(m, n, a, ok, chars) ==
    [method |-> m, name |-> n, attempt |-> a, ok |-> ok, chars |-> chars]

Call(m, op, to, arg) == [method |-> m, op |-> op, to |-> to, arg |-> arg]

\* the method the position belongs to
Method(p) ==
    CASE p = "m1" -> "1"
      [] p = "m1b" -> "1b"
      [] p \in {"m2", "m2dl"} -> "2"
      [] p \in {"m3", "m3dl"} -> "3"
      [] p = "m4" -> "4"
      [] p \in {"m5", "m5dl"} -> "5"
      [] p \in {"m6", "m6dl"} -> "6"

\* the log message of the current attempt
CurEntry(ok, chars) ==
    CASE Method(pc) = "2" -> Entry("2", clients[c], attempt + 1, ok, chars)
      [] Method(pc) = "3" -> Entry("3", alt_apis[api].name, 0, ok, chars)
      [] Method(pc) = "4" -> Entry("4", timedtext_langs[lang], 0, ok, chars)
      [] OTHER -> Entry(Method(pc), "", 0, ok, chars)

\* text[:200]
Truncated(text) == SubSeq(text, 1, IF Len(text) < DEBUG_LEN THEN Len(text) ELSE DEBUG_LEN)

\* the jsonify(...) of a success (lines 234-236, 368-370, ...)
Success(text, dbg, lg, vid) ==
    IF dbg THEN [status |-> 200, transcript |-> Truncated(text), debug |-> lg, video_id |-> vid]
    ELSE [status |-> 200, transcript |-> text, video_id |-> vid]

\* NotFound with the trace attached whatever the flag
NotFoundAlwaysTrace(dbg, lg) == [status |-> 404, error |-> "No captions", debug |-> lg]

\* lines 565-567
NotFound(dbg, lg) ==
    IF dbg THEN [status |-> 404, error |-> "No captions", debug |-> lg]
    ELSE [status |-> 404, error |-> "No captions available"]

GoTo(p, ci, at, ai, li) ==
    /\ pc' = p
    /\ c' = ci
    /\ attempt' = at
    /\ api' = ai
    /\ lang' = li

\* Continue giving up a profile after its first attempt when debug is on
ContinueDebugSkipsRetry ==
    CASE pc = "m1" -> GoTo("m1b", 0, 0, 0, 0)
      [] pc = "m1b" -> GoTo("m2", 1, 0, 0, 0)
      [] Method(pc) = "2" ->
            IF attempt + 1 < ATTEMPTS /\ ~debug THEN GoTo("m2", c, attempt + 1, 0, 0)
            ELSE IF c < Len(clients) THEN GoTo("m2", c + 1, 0, 0, 0)
            ELSE GoTo("m3", 0, 0, 1, 0)
      [] Method(pc) = "3" ->
            IF api < Len(alt_apis) THEN GoTo("m3", 0, 0, api + 1, 0)
            ELSE GoTo("m4", 0, 0, 0, 1)
      [] Method(pc) = "4" ->
            IF lang < Len(timedtext_langs) THEN GoTo("m4", 0, 0, 0, lang + 1)
            ELSE GoTo("m5", 0, 0, 0, 0)
      [] Method(pc) = "5" -> GoTo("m6", 0, 0, 0, 0)
      [] Method(pc) = "6" -> GoTo("done", 0, 0, 0, 0)

\* where control goes when the current attempt has failed: the next
\* iteration of the enclosing loops, else the next method
Continue ==
    CASE pc = "m1" -> GoTo("m1b", 0, 0, 0, 0)
      [] pc = "m1b" -> GoTo("m2", 1, 0, 0, 0)
      [] Method(pc) = "2" ->
            IF attempt + 1 < ATTEMPTS THEN GoTo("m2", c, attempt + 1, 0, 0)
            ELSE IF c < Len(clients) THEN GoTo("m2", c + 1, 0, 0, 0)
            ELSE GoTo("m3", 0, 0, 1, 0)
      [] Method(pc) = "3" ->
            IF api < Len(alt_apis) THEN GoTo("m3", 0, 0, api + 1, 0)
            ELSE GoTo("m4", 0, 0, 0, 1)
      [] Method(pc) = "4" ->
            IF lang < Len(timedtext_langs) THEN GoTo("m4", 0, 0, 0, lang + 1)
            ELSE GoTo("m5", 0, 0, 0, 0)
      [] Method(pc) = "5" -> GoTo("m6", 0, 0, 0, 0)
      [] Method(pc) = "6" -> GoTo("done", 0, 0, 0, 0)

\* Fail without the log message of line 446
FailUnlogged(br) ==
    /\ logs' = IF br = "parse" THEN logs ELSE Append(logs, CurEntry(FALSE, 0))
    /\ branch' = br
    /\ onlyNoCaptions' = (onlyNoCaptions /\ (Method(pc) = "2" => br = "notracks"))
    /\ Continue
    /\ response' = IF Method(pc) = "6" THEN NotFound(debug, logs') ELSE response
    /\ tracks' = <<>>
    /\ track' = 0
    /\ url' = ""

\* Fail with an exception that escapes the handler: the framework answers 500
FailPropagating(br) ==
    /\ logs' = Append(logs, CurEntry(FALSE, 0))
    /\ branch' = br
    /\ onlyNoCaptions' = (onlyNoCaptions /\ (Method(pc) = "2" => br = "notracks"))
    /\ IF br = "exception" THEN GoTo("done", 0, 0, 0, 0) ELSE Continue
    /\ response' = IF br = "exception" THEN [status |-> 500, error |-> "Internal Server Error"]
                   ELSE IF Method(pc) = "6" THEN NotFound(debug, logs') ELSE response
    /\ tracks' = <<>>
    /\ track' = 0
    /\ url' = ""

\* a failure branch of the current attempt: one log message, then on; after
\* the watch page the 404 of lines 565-567
Fail(br) ==
    /\ logs' = Append(logs, CurEntry(FALSE, 0))
    /\ branch' = br
    /\ onlyNoCaptions' = (onlyNoCaptions /\ (Method(pc) = "2" => br = "notracks"))
    /\ Continue
    /\ response' = IF Method(pc) = "6" THEN NotFound(debug, logs') ELSE response
    /\ tracks' = <<>>
    /\ track' = 0
    /\ url' = ""

\* Succeed without the return: the handler goes on with the next attempt
SucceedAndGoOn(text) ==
    /\ logs' = Append(logs, CurEntry(TRUE, Len(text)))
    /\ branch' = "success"
    /\ response' = response
    /\ Continue
    /\ tracks' = <<>>
    /\ track' = 0
    /\ url' = ""
    /\ UNCHANGED onlyNoCaptions

\* the success branch of the current attempt: one log message and the return
Succeed(text) ==
    /\ logs' = Append(logs, CurEntry(TRUE, Len(text)))
    /\ branch' = "success"
    /\ response' = Success(text, debug, logs', video_id)
    /\ pc' = "done"
    /\ tracks' = <<>>
    /\ track' = 0
    /\ url' = ""
    /\ UNCHANGED <<c, attempt, api, lang, onlyNoCaptions>>

\* an index step found tracks: on to the download of the chosen one
Chosen(p, tr, k, u) ==
    /\ pc' = p
    /\ tracks' = tr
    /\ track' = k
    /\ url' = u
    /\ branch' = "tracks"
    /\ UNCHANGED <<logs, response, c, attempt, api, lang, onlyNoCaptions>>

HandlerInit ==
    /\ pc = "idle"
    /\ video_id = ""
    /\ debug = FALSE
    /\ logs = <<>>
    /\ c = 0
    /\ attempt = 0
    /\ api = 0
    /\ lang = 0
    /\ tracks = <<>>
    /\ track = 0
    /\ url = ""
    /\ response = NoResponse
    /\ calls = <<>>
    /\ contacted = {}
    /\ started = 0
    /\ upstream = NoUpstream
    /\ branch = ""
    /\ onlyNoCaptions = TRUE

\* no stand-alone extractor call is under way
ExtractIdle ==
    /\ xpc = "idle"
    /\ payload = <<>>
    /\ lines_out = <<>>

NoWorld == [winner |-> 0]
NoFirst == [status |-> 0]

\* no comparison is under way
ReplayIdle ==
    /\ world = NoWorld
    /\ run = 0
    /\ first = NoFirst
    /\ allcalls = <<>>

\* no concurrent worker exists
ConcIdle == workers = <<>>

Init ==
    /\ HandlerInit
    /\ ExtractIdle
    /\ ReplayIdle
    /\ ConcIdle

\* a request arrives: lines 223-224
Request(vid, dbg) ==
    /\ pc \in {"idle", "done"}
    /\ pc' = "m1"
    /\ video_id' = vid
    /\ debug' = dbg
    /\ logs' = <<>>
    /\ response' = NoResponse
    /\ calls' = <<>>
    /\ contacted' = {}
    /\ started' = 0
    /\ upstream' = NoUpstream
    /\ branch' = ""
    /\ onlyNoCaptions' = TRUE
    /\ c' = 0 /\ attempt' = 0 /\ api' = 0 /\ lang' = 0
    /\ tracks' = <<>> /\ track' = 0 /\ url' = ""

\* the outbound operations of a step
Issue(cs) ==
    /\ calls' = cs
    /\ contacted' = contacted \cup {cs[k].method : k \in 1..Len(cs)}

\* the first step of an attempt
Begin(cs) ==
    /\ Issue(cs)
    /\ started' = started + 1

\* the second step of an attempt, the download of the chosen track
Download(cs) ==
    /\ Issue(cs)
    /\ started' = started

\* api.fetch(...) of line 230 and YouTubeTranscriptApi.get_transcript(...) of
\* line 244 are called without a timeout: when the upstream never answers the
\* call does not return
Block ==
    /\ pc' = "blocked"
    /\ branch' = "blocked"
    /\ UNCHANGED <<logs, response, c, attempt, api, lang, tracks, track, url, onlyNoCaptions>>

\* LibraryBody without the return of lines 234-236 and 248-250: the success
\* message is logged and the handler goes on with the next method
LibraryBodyWithoutReturn(r) ==
    IF r.kind = "hang" THEN Block
    ELSE IF r.kind = "raise" THEN Fail("exception")
    ELSE LET text == join(<<" ">>, [k \in 1..Len(r.items) |-> ContentText[r.items[k]]])
         IN  IF strip(text) # <<>> THEN SucceedAndGoOn(text) ELSE Fail("empty")

\* the body of both library methods: ' '.join of the items' texts
LibraryBody(r) ==
    IF r.kind = "hang" THEN Block
    ELSE IF r.kind = "raise" THEN Fail("exception")
    ELSE LET text == join(<<" ">>, [k \in 1..Len(r.items) |-> ContentText[r.items[k]]])
         IN  IF strip(text) # <<>> THEN Succeed(text) ELSE Fail("empty")

\* method 1, lines 226-239
Library1(r) ==
    /\ pc = "m1"
    /\ Begin(<<Call("1", "fetch", "library", "")>>)
    /\ upstream' = r
    /\ LibraryBody(r)
    /\ UNCHANGED <<video_id, debug>>

\* method 1b, lines 241-253
Library1b(r) ==
    /\ pc = "m1b"
    /\ Begin(<<Call("1b", "get_transcript", "library", "")>>)
    /\ upstream' = r
    /\ LibraryBody(r)
    /\ UNCHANGED <<video_id, debug>>

\* time.sleep(1) of lines 330-331
Sleep == Call("2", "sleep", "", "")

\* InnertubePlayer sleeping before every attempt, the first included
InnertubePlayerSleepsFirst(r) ==
    /\ pc = "m2"
    /\ Begin(<<Sleep, Call("2", "POST", "player", clients[c])>>)
    /\ upstream' = r
    /\ IF Raises(r) THEN Fail("exception")
       ELSE IF r.status # 200 THEN Fail("http")
       ELSE IF ~r.json THEN Fail("exception")
       ELSE IF r.playability # "OK" THEN Fail("notplayable")
       ELSE IF r.tracks = <<>> THEN Fail("notracks")
       ELSE Chosen("m2dl", r.tracks, select_track(r.tracks), r.url)
    /\ UNCHANGED <<video_id, debug>>

\* InnertubePlayer looking at the track list before the playability status
InnertubePlayerTracksFirst(r) ==
    /\ pc = "m2"
    /\ Begin((IF attempt > 0 THEN <<Sleep>> ELSE <<>>)
             \o <<Call("2", "POST", "player", clients[c])>>)
    /\ upstream' = r
    /\ IF Raises(r) THEN Fail("exception")
       ELSE IF r.status # 200 THEN Fail("http")
       ELSE IF ~r.json THEN Fail("exception")
       ELSE IF r.tracks = <<>> THEN Fail("notracks")
       ELSE Chosen("m2dl", r.tracks, select_track(r.tracks), r.url)
    /\ UNCHANGED <<video_id, debug>>

\* method 2, the player request of one attempt and its checks: lines 329-359
InnertubePlayer(r) ==
    /\ pc = "m2"
    /\ Begin((IF attempt > 0 THEN <<Sleep>> ELSE <<>>)
             \o <<Call("2", "POST", "player", clients[c])>>)
    /\ upstream' = r
    /\ IF Raises(r) THEN Fail("exception")
       ELSE IF r.status # 200 THEN Fail("http")
       ELSE IF ~r.json THEN Fail("exception")
       ELSE IF r.playability # "OK" THEN Fail("notplayable")
       ELSE IF r.tracks = <<>> THEN Fail("notracks")
       ELSE Chosen("m2dl", r.tracks, select_track(r.tracks), r.url)
    /\ UNCHANGED <<video_id, debug>>

\* CaptionBody without the "if texts" test
CaptionBodyUnchecked(r) ==
    IF Raises(r) THEN Fail("exception")
    ELSE IF r.status # 200 THEN Fail("download")
    ELSE Succeed(join(<<" ">>, Extracted[r.doc]))

\* the download of a chosen track and its normalisation, as the manifest,
\* embed-page and watch-page methods do it: lines 361-371, 497-508, 544-555
CaptionBody(r) ==
    IF Raises(r) THEN Fail("exception")
    ELSE IF r.status # 200 THEN Fail("download")
    ELSE LET texts == Extracted[r.doc]
         IN  IF texts # <<>> THEN Succeed(join(<<" ">>, texts)) ELSE Fail("extract")

\* method 2, the caption download of one attempt: lines 361-373
InnertubeCaption(r) ==
    /\ pc = "m2dl"
    /\ Download(Append(calls, Call("2", "GET", "caption", url)))
    /\ upstream' = r
    /\ CaptionBody(r)
    /\ UNCHANGED <<video_id, debug>>

\* method 3, the request to one mirror and its checks: lines 384-409, 419-434
AltApi(r) ==
    /\ pc = "m3"
    /\ Begin(<<Call("3", "GET", "mirror", alt_apis[api].name)>>)
    /\ upstream' = r
    /\ IF Raises(r) THEN Fail("exception")
       ELSE IF r.status # 200 THEN Fail("http")
       ELSE IF ~r.json THEN Fail("exception")
       ELSE IF r.tracks = <<>> THEN Fail("notracks")
       ELSE IF r.url = "" THEN Fail("nourl")
       ELSE Chosen("m3dl", r.tracks, select_sub(r.tracks), r.url)
    /\ UNCHANGED <<video_id, debug>>

\* full_url of lines 435-436: an Invidious mirror completes a relative url
full_url(type, u) == IF type = "invidious" /\ u = "/rel" THEN "base/rel" ELSE u

\* AltCaption without the length test of lines 411 and 438
AltCaptionAnyLength(r) ==
    /\ pc = "m3dl"
    /\ upstream' = r
    /\ IF full_url(alt_apis[api].type, url) = "/rel"
       THEN Download(calls) /\ Fail("exception")
       ELSE /\ Download(Append(calls, Call("3", "GET", "caption", full_url(alt_apis[api].type, url))))
            /\ IF Raises(r) THEN Fail("exception")
               ELSE IF r.status = 200 /\ Extracted[r.doc] # <<>>
                    THEN Succeed(join(<<" ">>, Extracted[r.doc]))
                    ELSE Fail("parse")
    /\ UNCHANGED <<video_id, debug>>

\* method 3, the caption download from one mirror: lines 410-417, 437-448;
\* requests.get of a url without a scheme raises before anything is sent
AltCaption(r) ==
    /\ pc = "m3dl"
    /\ upstream' = r
    /\ IF full_url(alt_apis[api].type, url) = "/rel"
       THEN Download(calls) /\ Fail("exception")
       ELSE /\ Download(Append(calls, Call("3", "GET", "caption", full_url(alt_apis[api].type, url))))
            /\ IF Raises(r) THEN Fail("exception")
               ELSE IF /\ r.status = 200
                       /\ Len(Rendered[r.doc]) > ALT_MIN_LEN
                       /\ Extracted[r.doc] # <<>>
                    THEN Succeed(join(<<" ">>, Extracted[r.doc]))
                    ELSE Fail("parse")
    /\ UNCHANGED <<video_id, debug>>

\* method 4, one language of the timed-text endpoint: lines 451-470
TimedText(r) ==
    /\ pc = "m4"
    /\ Begin(<<Call("4", "GET", "timedtext", timedtext_langs[lang])>>)
    /\ upstream' = r
    /\ IF Raises(r) THEN Fail("exception")
       ELSE IF r.status = 200 /\ Len(Rendered[r.doc]) > TIMEDTEXT_MIN_LEN
            THEN LET texts == Extracted[r.doc]
                 IN  IF texts # <<>> THEN Succeed(join(<<" ">>, texts)) ELSE Fail("extract")
            ELSE Fail("http")
    /\ UNCHANGED <<video_id, debug>>

\* the checks of a fetched page: lines 482-496 and 509-514, 529-543 and 556-561
PageBody(r, dl) ==
    IF Raises(r) THEN Fail("exception")
    ELSE IF r.status # 200 THEN Fail("http")
    ELSE IF ~r.found THEN Fail("nomatch")
    ELSE IF ~r.json THEN Fail("exception")
    ELSE IF r.tracks = <<>> THEN Fail("notracks")
    ELSE Chosen(dl, r.tracks, select_track(r.tracks), r.url)

\* method 5, the embed page: lines 473-496
EmbedPage(r) ==
    /\ pc = "m5"
    /\ Begin(<<Call("5", "GET", "embed", "")>>)
    /\ upstream' = r
    /\ PageBody(r, "m5dl")
    /\ UNCHANGED <<video_id, debug>>

\* method 5, the caption download: lines 497-516
EmbedCaption(r) ==
    /\ pc = "m5dl"
    /\ Download(Append(calls, Call("5", "GET", "caption", url)))
    /\ upstream' = r
    /\ CaptionBody(r)
    /\ UNCHANGED <<video_id, debug>>

\* method 6, the watch page: lines 519-543
WatchPage(r) ==
    /\ pc = "m6"
    /\ Begin(<<Call("6", "GET", "watch", "")>>)
    /\ upstream' = r
    /\ PageBody(r, "m6dl")
    /\ UNCHANGED <<video_id, debug>>

\* method 6, the caption download, and the 404 when it fails: lines 544-567
WatchCaption(r) ==
    /\ pc = "m6dl"
    /\ Download(Append(calls, Call("6", "GET", "caption", url)))
    /\ upstream' = r
    /\ CaptionBody(r)
    /\ UNCHANGED <<video_id, debug>>

Next ==
    \/ \E vid \in VideoIds, dbg \in BOOLEAN : Request(vid, dbg) /\ UNCHANGED <<xvars, rvars, cvars>>
    \/ \E r \in LibraryResults : Library1(r) /\ UNCHANGED <<xvars, rvars, cvars>>
    \/ \E r \in LibraryResults : Library1b(r) /\ UNCHANGED <<xvars, rvars, cvars>>
    \/ \E r \in PlayerResults : InnertubePlayer(r) /\ UNCHANGED <<xvars, rvars, cvars>>
    \/ \E r \in CaptionResults : InnertubeCaption(r) /\ UNCHANGED <<xvars, rvars, cvars>>
    \/ \E r \in AltResults : AltApi(r) /\ UNCHANGED <<xvars, rvars, cvars>>
    \/ \E r \in CaptionResults : AltCaption(r) /\ UNCHANGED <<xvars, rvars, cvars>>
    \/ \E r \in CaptionResults : TimedText(r) /\ UNCHANGED <<xvars, rvars, cvars>>
    \/ \E r \in PageResults : EmbedPage(r) /\ UNCHANGED <<xvars, rvars, cvars>>
    \/ \E r \in CaptionResults : EmbedCaption(r) /\ UNCHANGED <<xvars, rvars, cvars>>
    \/ \E r \in PageResults : WatchPage(r) /\ UNCHANGED <<xvars, rvars, cvars>>
    \/ \E r \in CaptionResults : WatchCaption(r) /\ UNCHANGED <<xvars, rvars, cvars>>

Spec == Init /\ [][Next]_vars

\* the handler is straight-line code run by one worker: a step that can be
\* taken is taken
LiveSpec == Spec /\ WF_vars(Next)


(***************************************************************************)
(* extract_texts called on its own, on payloads that mix the two dialects. *)
(* An element of a payload is <text>, a <p> with <s> spans, a <p> without  *)
(* spans, or markup of neither dialect.                                    *)
(***************************************************************************)
MaxBlocks == 2

\* the contents of an element or span, by name
PartText ==
    [empty |-> <<>>,
     blank |-> <<" ">>,
     word |-> <<"a">>,
     nested |-> <<"&", "a", "m", "p", ";", "l", "t", ";">>,
     mixed |-> <<" ", "&", "g", "t", ";", "&", "q", "u", "o", "t", ";", "&", "#", "3",
                 "9", ";", "&", "a", "m", "p", ";", "&", "l", "t", ";", "\n">>]

Parts == DOMAIN PartText

Element(tg, ps) == [tag |-> tg, parts |-> ps]

Elements ==
    {Element("text", <<p>>) : p \in Parts}
    \cup {Element("plain", <<p>>) : p \in Parts}
    \cup {Element("spans", <<p>>) : p \in Parts}
    \cup {Element("spans", <<"word", p>>) : p \in Parts}
    \cup {Element("other", <<"word">>)}

Payloads == SeqsUpTo(Elements, MaxBlocks)

\* <p t="0"><s>c1</s><s>c2</s></p>
RenderSpans(ps) ==
    P_OPEN \o <<"t", "=", "\"", "0", "\"">> \o GT
    \o concat([k \in 1..Len(ps) |-> S_OPEN \o GT \o PartText[ps[k]] \o S_CLOSE])
    \o P_CLOSE

\* <p t="0"><b>c</b></p>
RenderPlain(part) ==
    P_OPEN \o <<"t", "=", "\"", "0", "\"">> \o GT
    \o <<"<", "b", ">">> \o PartText[part] \o <<"<", "/", "b", ">">> \o P_CLOSE

\* <div>c</div>
RenderOther(part) ==
    <<"<", "d", "i", "v", ">">> \o PartText[part] \o <<"<", "/", "d", "i", "v", ">">>

RenderElement(el) ==
    CASE el.tag = "text" -> RenderText(PartText[el.parts[1]])
      [] el.tag = "spans" -> RenderSpans(el.parts)
      [] el.tag = "plain" -> RenderPlain(el.parts[1])
      [] OTHER -> RenderOther(el.parts[1])

\* the characters of a payload, its elements separated by a newline
RenderPayload(els) == join(<<"\n">>, [k \in 1..Len(els) |-> RenderElement(els[k])])

ExtractInit ==
    /\ HandlerInit
    /\ ReplayIdle
    /\ ConcIdle
    /\ xpc = "call"
    /\ payload \in Payloads
    /\ lines_out = <<>>

\* extract_texts(content), lines 570-603
ExtractTexts ==
    /\ xpc = "call"
    /\ xpc' = "return"
    /\ lines_out' = extract_texts(RenderPayload(payload))
    /\ UNCHANGED <<payload, hvars, rvars, cvars>>

ExtractNext == ExtractTexts

ExtractSpec == ExtractInit /\ [][ExtractNext]_vars


(***************************************************************************)
(* Two requests for the same video, one after the other, against an        *)
(* upstream that gives both the same answers: the world fixes the attempt  *)
(* that is answered with captions (winner, 0 for none), the way every      *)
(* other attempt is made to fail, and the caption document.  The first     *)
(* request runs with debug on or off, the second with the flag negated.    *)
(***************************************************************************)
FailModes == {"raise", "http", "download", "extract", "hang"}

WorldDocs ==
    {[dialect |-> "text", elems |-> <<"long", "long">>],
     [dialect |-> "text", elems |-> <<"long">>],
     [dialect |-> "p", elems |-> <<"padded">>]}

\* the number of attempts of a request: lines 226-563
N_ATTEMPTS == 2 + Len(clients) * ATTEMPTS + Len(alt_apis) + Len(timedtext_langs) + 2

Worlds == [winner : 0..N_ATTEMPTS, fail : FailModes, doc : WorldDocs]

NOT_FOUND == [kind |-> "http", status |-> 404, doc |-> [dialect |-> "text", elems |-> <<>>]]
NO_LINES == [kind |-> "body", status |-> 200, doc |-> [dialect |-> "text", elems |-> <<>>]]
LISTING == Body(200, TRUE, TRUE, "OK", <<EN>>, "abs")

\* the answer of the library to attempt k
LibraryAnswer(k) ==
    IF world.winner = k THEN [kind |-> "items", items |-> world.doc.elems]
    ELSE IF world.fail \in {"download", "extract"} THEN [kind |-> "items", items |-> <<"empty">>]
    ELSE RAISE

\* the answer to the index request (player, mirror, page) of attempt k
IndexAnswer(k) ==
    IF world.winner = k \/ world.fail \in {"download", "extract"} THEN LISTING
    ELSE IF world.fail = "http" THEN Body(403, TRUE, TRUE, "OK", <<>>, "")
    ELSE IF world.fail = "hang" THEN HANG
    ELSE RAISE

\* the answer to the caption download, or to the timed-text request, of
\* attempt k
CaptionAnswer(k) ==
    IF world.winner = k THEN [kind |-> "body", status |-> 200, doc |-> world.doc]
    ELSE IF world.fail \in {"http", "download"} THEN NOT_FOUND
    ELSE IF world.fail = "extract" THEN NO_LINES
    ELSE IF world.fail = "hang" THEN HANG
    ELSE RAISE

ReplayInit ==
    /\ HandlerInit
    /\ ExtractIdle
    /\ ConcIdle
    /\ world \in Worlds
    /\ run = 1
    /\ first = NoFirst
    /\ allcalls = <<>>

\* the operations a step has added to calls
Issued ==
    IF started' # started THEN calls' ELSE SubSeq(calls', Len(calls) + 1, Len(calls'))

\* a step of the request under way
Record ==
    /\ allcalls' = allcalls \o Issued
    /\ UNCHANGED <<world, run, first, xvars, cvars>>

\* the first request arrives
FirstRequest(vid, dbg) ==
    /\ run = 1
    /\ pc = "idle"
    /\ Request(vid, dbg)
    /\ UNCHANGED <<rvars, xvars, cvars>>

\* the first request is answered and the second arrives, for the same video
\* and with the flag negated
SecondRequest ==
    /\ run = 1
    /\ pc = "done"
    /\ Request(video_id, ~debug)
    /\ run' = 2
    /\ first' = [status |-> response.status, response |-> response, logs |-> logs,
                 calls |-> allcalls, debug |-> debug]
    /\ allcalls' = <<>>
    /\ UNCHANGED <<world, xvars, cvars>>

ReplayNext ==
    \/ \E vid \in VideoIds, dbg \in BOOLEAN : FirstRequest(vid, dbg)
    \/ SecondRequest
    \/ Library1(LibraryAnswer(started + 1)) /\ Record
    \/ Library1b(LibraryAnswer(started + 1)) /\ Record
    \/ InnertubePlayer(IndexAnswer(started + 1)) /\ Record
    \/ InnertubeCaption(CaptionAnswer(started)) /\ Record
    \/ AltApi(IndexAnswer(started + 1)) /\ Record
    \/ AltCaption(CaptionAnswer(started)) /\ Record
    \/ TimedText(CaptionAnswer(started + 1)) /\ Record
    \/ EmbedPage(IndexAnswer(started + 1)) /\ Record
    \/ EmbedCaption(CaptionAnswer(started)) /\ Record
    \/ WatchPage(IndexAnswer(started + 1)) /\ Record
    \/ WatchCaption(CaptionAnswer(started)) /\ Record

ReplaySpec == ReplayInit /\ [][ReplayNext]_vars


(***************************************************************************)
(* Two workers running get_transcript at the same time, each handling      *)
(* requests one after another.  A step of a worker is one whole attempt of *)
(* its request; the outcome of the attempt is what the upstream made of    *)
(* it: a failure, or a text.  Everything get_transcript reads and writes   *)
(* is a local of the call (debug and logs of lines 223-224, the registries *)
(* of lines 256-325 and 376-381) or flask's per-request context.           *)
(***************************************************************************)
Workers == {1, 2}

Texts == {ContentText["padded"], ContentText["long"] \o ContentText["long"] \o ContentText["long"]}

Outcomes == {[ok |-> FALSE]} \cup [ok : {TRUE}, text : Texts]

IdleWorker ==
    [pc |-> "idle", video_id |-> "", debug |-> FALSE, logs |-> <<>>, k |-> 0,
     response |-> NoResponse, fed |-> <<>>, prev_failed |-> FALSE]

\* the log entry of the k-th attempt of a request, from the registries
AttemptEntry(k, ok, chars) ==
    CASE k = 1 -> Entry("1", "", 0, ok, chars)
      [] k = 2 -> Entry("1b", "", 0, ok, chars)
      [] k \in 3..(2 + Len(clients) * ATTEMPTS) ->
            Entry("2", clients[((k - 3) \div ATTEMPTS) + 1], ((k - 3) % ATTEMPTS) + 1, ok, chars)
      [] k \in (3 + Len(clients) * ATTEMPTS)..(N_ATTEMPTS - 4) ->
            Entry("3", alt_apis[k - 2 - Len(clients) * ATTEMPTS].name, 0, ok, chars)
      [] k \in (N_ATTEMPTS - 3)..(N_ATTEMPTS - 2) ->
            Entry("4", timedtext_langs[k - N_ATTEMPTS + 4], 0, ok, chars)
      [] k = N_ATTEMPTS - 1 -> Entry("5", "", 0, ok, chars)
      [] k = N_ATTEMPTS -> Entry("6", "", 0, ok, chars)

ConcInit ==
    /\ HandlerInit
    /\ ExtractIdle
    /\ ReplayIdle
    /\ workers = [w \in Workers |-> IdleWorker]

\* a request arrives at worker w: lines 223-224
ConcRequest(w, vid, dbg) ==
    /\ workers[w].pc \in {"idle", "done"}
    /\ workers' = [workers EXCEPT ![w] =
          [pc |-> "run", video_id |-> vid, debug |-> dbg, logs |-> <<>>, k |-> 0,
           response |-> NoResponse, fed |-> <<>>, prev_failed |-> (workers[w].response.status = 404)]]
    /\ UNCHANGED <<hvars, xvars, rvars>>

\* the state of a worker after its next attempt has ended with outcome o
AfterAttempt(me, o) ==
    LET n == me.k + 1
        lg == Append(me.logs, AttemptEntry(n, o.ok, IF o.ok THEN Len(o.text) ELSE 0))
    IN  [me EXCEPT
            !.logs = lg,
            !.k = n,
            !.fed = Append(me.fed, o),
            !.pc = IF o.ok \/ n = N_ATTEMPTS THEN "done" ELSE "run",
            !.response = IF o.ok THEN Success(o.text, me.debug, lg, me.video_id)
                         ELSE IF n = N_ATTEMPTS THEN NotFound(me.debug, lg)
                         ELSE NoResponse]

\* ConcAttempt with logs a module-level list that every worker appends to
ConcAttemptSharedLogs(w, o) ==
    /\ workers[w].pc = "run"
    /\ workers' = [v \in Workers |->
          IF v = w THEN AfterAttempt(workers[w], o)
          ELSE [workers[v] EXCEPT !.logs = AfterAttempt(workers[w], o).logs]]
    /\ UNCHANGED <<hvars, xvars, rvars>>

\* worker w makes the next attempt of its request
ConcAttempt(w, o) ==
    /\ workers[w].pc = "run"
    /\ workers' = [workers EXCEPT ![w] = AfterAttempt(workers[w], o)]
    /\ UNCHANGED <<hvars, xvars, rvars>>

ConcNext ==
    \/ \E w \in Workers, vid \in VideoIds, dbg \in BOOLEAN : ConcRequest(w, vid, dbg)
    \/ \E w \in Workers, o \in Outcomes : ConcAttempt(w, o)

ConcSpec == ConcInit /\ [][ConcNext]_vars

TypeOK ==
    /\ pc \in {"idle", "m1", "m1b", "m2", "m2dl", "m3", "m3dl", "m4", "m5", "m5dl",
               "m6", "m6dl", "done", "blocked"}
    /\ debug \in BOOLEAN
    /\ Len(logs) <= 18
    /\ response.status \in {0, 200, 404}

(***************************************************************************)
(* Vocabulary of the properties.                                           *)
(***************************************************************************)
Key(m, n, a) == [method |-> m, name |-> n, attempt |-> a]

KeyOf(e) == Key(e.method, e.name, e.attempt)

\* the order of the attempts as the specification lists it
FixedOrder ==
    <<Key("1", "", 0), Key("1b", "", 0),
      Key("2", "IOS", 1), Key("2", "IOS", 2),
      Key("2", "ANDROID", 1), Key("2", "ANDROID", 2),
      Key("2", "TV_EMBED", 1), Key("2", "TV_EMBED", 2),
      Key("2", "WEB", 1), Key("2", "WEB", 2),
      Key("3", "Piped", 0), Key("3", "Invidious1", 0),
      Key("3", "Invidious2", 0), Key("3", "Invidious3", 0),
      Key("4", "ko", 0), Key("4", "en", 0),
      Key("5", "", 0), Key("6", "", 0)>>

TotalAttempts == Len(FixedOrder)

FailureBranches ==
    {"exception", "empty", "http", "notplayable", "notracks", "nourl", "download",
     "extract", "parse", "nomatch"}

DownloadPositions == {"m2dl", "m3dl", "m5dl", "m6dl"}

LastEntry == logs[Len(logs)]

\* the text the answer r yields when an attempt succeeds on it
Produced(r) ==
    IF r.kind = "items"
    THEN join(<<" ">>, [k \in 1..Len(r.items) |-> ContentText[r.items[k]]])
    ELSE join(<<" ">>, extract_texts(Render(r.doc)))

\* the transcript field of a response built from text
Returned(text) == IF debug THEN SubSeq(text, 1, IF Len(text) > 200 THEN 200 ELSE Len(text)) ELSE text

(***************************************************************************)
(* C1: the attempts made are a prefix of the fixed list of 18, no attempt  *)
(* follows one that yielded text, and the response is built from the text  *)
(* of that first successful attempt (cut to 200 characters when debug is   *)
(* on), never from a later one.                                            *)
(***************************************************************************)
C1_FirstSuccessWins ==
    /\ Len(logs) <= TotalAttempts
    /\ \A k \in 1..Len(logs) : KeyOf(logs[k]) = FixedOrder[k]
    /\ \A k \in 1..(Len(logs) - 1) : ~logs[k].ok
    /\ (logs # <<>> /\ LastEntry.ok) =>
          /\ pc = "done"
          /\ response.status = 200
          /\ response.transcript = Returned(Produced(upstream))
          /\ LastEntry.chars = Len(Produced(upstream))
    /\ response.status = 200 => (logs # <<>> /\ LastEntry.ok)

\* a late strategy wins after every earlier attempt failed
C1_Witness ==
    /\ pc = "done"
    /\ response.status = 200
    /\ Len(logs) = 16
    /\ KeyOf(LastEntry) = Key("4", "en", 0)

(***************************************************************************)
(* C2: when the first attempt (official library) yields text, the handler  *)
(* has returned and no call of methods 2-6 (manifest, mirror, timed text,  *)
(* embed page, watch page) was issued for the request.                     *)
(***************************************************************************)
C2_LibrarySuccessStops ==
    (logs # <<>> /\ logs[1].ok) =>
        /\ pc = "done"
        /\ response.status = 200
        /\ contacted \cap {"2", "3", "4", "5", "6"} = {}
        /\ \A k \in 1..Len(calls) : calls[k].method = "1"

C2_Witness ==
    /\ logs # <<>>
    /\ logs[1].ok
    /\ response.status = 200
    /\ contacted = {"1"}

(***************************************************************************)
(* C3: the 404 is returned exactly when all 18 attempts of the fixed order *)
(* were made and failed, and no attempt appears twice in one request.      *)
(***************************************************************************)
C3_ExhaustedIffAllFailed ==
    /\ response.status = 404 <=>
          /\ Len(logs) = TotalAttempts
          /\ \A k \in 1..Len(logs) : ~logs[k].ok /\ KeyOf(logs[k]) = FixedOrder[k]
    /\ \A i, j \in 1..Len(logs) : i # j => KeyOf(logs[i]) # KeyOf(logs[j])
    /\ started <= TotalAttempts

C3_Witness ==
    /\ response.status = 404
    /\ pc = "done"
    /\ Len(logs) = 18

(***************************************************************************)
(* C4: logs holds exactly one entry per completed attempt, in the order    *)
(* the attempts were made, whatever branch each took; at the 404 it holds  *)
(* 18 entries.                                                             *)
(***************************************************************************)
C4_OneEntryPerAttempt ==
    /\ Len(logs) = (IF pc \in DownloadPositions \cup {"blocked"} THEN started - 1 ELSE started)
    /\ \A k \in 1..Len(logs) : KeyOf(logs[k]) = FixedOrder[k]
    /\ branch \in FailureBranches \cup {"success"} => Len(logs) = started
    /\ response.status = 404 => Len(logs) = 2 + 4 * 2 + 4 + 2 + 1 + 1

\* a mirror attempt that fell through after its download
C4_Witness ==
    /\ branch = "parse"
    /\ started = 11
    /\ Len(logs) = 11
    /\ Len(calls) = 2

(***************************************************************************)
(* C5: a failed attempt is absorbed: it leaves one failure entry and the   *)
(* handler stands before the next attempt of the fixed order without       *)
(* having answered; the only error response there is is the final 404.     *)
(***************************************************************************)
NextPosition(k) ==
    CASE k = 2 -> [pc |-> "m1b", c |-> 0, attempt |-> 0, api |-> 0, lang |-> 0]
      [] k \in 3..10 -> [pc |-> "m2", c |-> (k - 1) \div 2, attempt |-> (k - 1) % 2,
                         api |-> 0, lang |-> 0]
      [] k \in 11..14 -> [pc |-> "m3", c |-> 0, attempt |-> 0, api |-> k - 10, lang |-> 0]
      [] k \in 15..16 -> [pc |-> "m4", c |-> 0, attempt |-> 0, api |-> 0, lang |-> k - 14]
      [] k = 17 -> [pc |-> "m5", c |-> 0, attempt |-> 0, api |-> 0, lang |-> 0]
      [] k = 18 -> [pc |-> "m6", c |-> 0, attempt |-> 0, api |-> 0, lang |-> 0]

C5_FailuresAbsorbed ==
    /\ response.status \in {0, 200, 404}
    /\ branch \in FailureBranches =>
          /\ logs # <<>>
          /\ ~LastEntry.ok
          /\ IF Len(logs) < TotalAttempts
             THEN /\ response = NoResponse
                  /\ [pc |-> pc, c |-> c, attempt |-> attempt, api |-> api, lang |-> lang]
                        = NextPosition(Len(logs) + 1)
             ELSE response.status = 404 /\ pc = "done"

\* an exception in a manifest attempt, absorbed
C5_Witness ==
    /\ branch = "exception"
    /\ upstream = RAISE
    /\ pc = "m2"
    /\ c = 2
    /\ response = NoResponse

(***************************************************************************)
(* C6: a response is never partially filled: a 200 carries a non-empty     *)
(* transcript and the video id, with debug on or off; any other response   *)
(* is the 404 and has no transcript field.                                 *)
(***************************************************************************)
C6_NeverPartial ==
    /\ response.status = 200 =>
          /\ {"transcript", "video_id"} \subseteq DOMAIN response
          /\ response.transcript # <<>>
          /\ response.video_id = video_id
    /\ (response # NoResponse /\ response.status # 200) =>
          /\ response.status = 404
          /\ "transcript" \notin DOMAIN response
          /\ "error" \in DOMAIN response
    /\ pc = "done" <=> response # NoResponse

\* a truncated transcript in debug mode
C6_Witness ==
    /\ response.status = 200
    /\ debug
    /\ Len(response.transcript) = 200

(***************************************************************************)
(* C7: after the last manifest attempt (the tenth attempt) has failed, the *)
(* next outbound request goes to the first mirror, and the mirrors are     *)
(* asked in the order Piped, Invidious1, Invidious2, Invidious3, however   *)
(* the manifest attempts failed.                                           *)
(***************************************************************************)
MirrorOrder == <<"Piped", "Invidious1", "Invidious2", "Invidious3">>

C7_MirrorsNextInFixedOrder ==
    /\ started \in 11..14 =>
          /\ calls # <<>>
          /\ calls[1] = Call("3", "GET", "mirror", MirrorOrder[started - 10])
          /\ \A k \in 1..Len(calls) : calls[k].method = "3"
    /\ (Len(logs) = 10 /\ ~LastEntry.ok) => (pc \in {"m3", "m3dl"} /\ api = 1)

\* every manifest attempt ended without caption tracks, Piped is asked next
C7_Witness ==
    /\ onlyNoCaptions
    /\ started = 11
    /\ Len(logs) = 10
    /\ calls[1] = Call("3", "GET", "mirror", "Piped")

(***************************************************************************)
(* C8 as stated: once every earlier attempt has failed, a 200 answer to    *)
(* the lang=en timed-text request whose payload is flat <text> markup with *)
(* a non-empty element makes the request succeed, whatever the payload's   *)
(* length, with the space-joined normalised contents as transcript and the *)
(* timed-text success as last log entry.                                   *)
(***************************************************************************)
\* the contents of a document's elements, entity-decoded and trimmed, the
\* empty ones left out
Normalised(doc) ==
    non_empty([k \in 1..Len(doc.elems) |-> strip(decode(ContentText[doc.elems[k]]))])

\* the handler has just dealt with the answer to the lang=en request, a 200
\* with flat <text> markup holding a non-empty element
FlatEnAnswer ==
    /\ started = 16
    /\ pc \in {"m5", "done"}
    /\ upstream.kind = "body"
    /\ upstream.status = 200
    /\ upstream.doc.dialect = "text"
    /\ Normalised(upstream.doc) # <<>>

TimedTextSucceeded ==
    /\ pc = "done"
    /\ response.status = 200
    /\ response.transcript = Returned(join(<<" ">>, Normalised(upstream.doc)))
    /\ LastEntry.ok
    /\ KeyOf(LastEntry) = Key("4", "en", 0)

C8_AnyLength == FlatEnAnswer => TimedTextSucceeded

(***************************************************************************)
(* C8 amended: the same for payloads longer than 100 characters; a payload *)
(* of at most 100 characters is a failed attempt and the handler goes on   *)
(* to the embed page.                                                      *)
(***************************************************************************)
C8_LongerThan100 ==
    FlatEnAnswer =>
        IF Len(Render(upstream.doc)) > 100
        THEN TimedTextSucceeded
        ELSE /\ pc = "m5"
             /\ response = NoResponse
             /\ ~LastEntry.ok
             /\ KeyOf(LastEntry) = Key("4", "en", 0)

\* a payload of a padded and a long element, debug off
C8_Witness ==
    /\ FlatEnAnswer
    /\ upstream.doc.elems = <<"padded", "long">>
    /\ ~debug
    /\ response.status = 200
    /\ response.transcript = <<"<", "a", " ">> \o ContentText["long"]

(***************************************************************************)
(* C9: in the manifest, embed-page and watch-page methods the chosen track *)
(* is a function of the ordered track list: the first 'ko' track, else the *)
(* first 'en' track, else the first track ([en, fr] gives en, [fr, de]     *)
(* gives fr).                                                              *)
(***************************************************************************)
Positions(ts, code) == {k \in 1..Len(ts) : ts[k] = code}

Least(S) == CHOOSE k \in S : \A m \in S : k <= m

ExpectedTrack(ts) ==
    IF Positions(ts, KO) # {} THEN Least(Positions(ts, KO))
    ELSE IF Positions(ts, EN) # {} THEN Least(Positions(ts, EN))
    ELSE 1

C10_SamePolicyEverywhere ==
    pc \in DownloadPositions => track = select_track(tracks)

(***************************************************************************)
(* C11: the trace is part of a response exactly when the request asked for *)
(* it with debug=1: with debug off neither the 200 nor the 404 has a debug *)
(* field, with debug on both have one and it holds the whole of logs, one  *)
(* entry for every attempt of the request.                                 *)
(***************************************************************************)
C11_TraceIffDebug ==
    response # NoResponse =>
        /\ response.status \in {200, 404}
        /\ "debug" \in DOMAIN response <=> debug
        /\ debug => /\ response.debug = logs
                    /\ Len(response.debug) = started

\* the 404 of a debug request carries the 18 entries
C11_Witness ==
    /\ response.status = 404
    /\ debug
    /\ "debug" \in DOMAIN response
    /\ Len(response.debug) = 18

(***************************************************************************)
(* Vocabulary of the extractor properties.                                 *)
(***************************************************************************)
\* the five entities and the characters they stand for
Entities ==
    {<<<<"&", "a", "m", "p", ";">>, "&">>,
     <<<<"&", "l", "t", ";">>, "<">>,
     <<<<"&", "g", "t", ";">>, ">">>,
     <<<<"&", "#", "3", "9", ";">>, "'">>,
     <<<<"&", "q", "u", "o", "t", ";">>, "\"">>}

\* entity decoding of a text: every entity of the text is replaced once by
\* its character, left to right
RECURSIVE unescape(_)
unescape(s) ==
    IF s = <<>> THEN <<>>
    ELSE LET E == {e \in Entities : startswith(s, e[1])}
         IN  IF E = {} THEN <<Head(s)>> \o unescape(Tail(s))
             ELSE LET e == CHOOSE e \in E : TRUE
                  IN  <<e[2]>> \o unescape(From(s, Len(e[1]) + 1))

\* the text of one element: the span contents concatenated, or the content
\* left when the tags are removed
ElementText(el) == concat([k \in 1..Len(el.parts) |-> PartText[el.parts[k]]])

ParagraphDialect(els) ==
    /\ els # <<>>
    /\ \A k \in 1..Len(els) : els[k].tag \in {"spans", "plain"}

FlatDialect(els) ==
    /\ els # <<>>
    /\ \A k \in 1..Len(els) : els[k].tag = "text"

(***************************************************************************)
(* C12 as stated: for a payload of <p> blocks extract_texts returns one    *)
(* line per block, in order, each the block's span contents concatenated   *)
(* (the tag-stripped block when it has no span) with the five entities     *)
(* decoded and the surrounding whitespace removed.                         *)
(***************************************************************************)
C12_OneLinePerParagraph ==
    (xpc = "return" /\ ParagraphDialect(payload)) =>
        lines_out = [k \in 1..Len(payload) |-> strip(unescape(ElementText(payload[k])))]

(***************************************************************************)
(* C13 as stated: for a payload of <text> elements only extract_texts      *)
(* returns one line per element, in order, each the element's content      *)
(* entity-decoded and trimmed.                                             *)
(***************************************************************************)
C13_OneLinePerElement ==
    (xpc = "return" /\ FlatDialect(payload)) =>
        lines_out = [k \in 1..Len(payload) |-> strip(unescape(ElementText(payload[k])))]

(***************************************************************************)
(* C18: extract_texts takes the <p> dialect first and the <text> dialect   *)
(* second, and the first that yields a non-empty line wins: <p> blocks     *)
(* that all reduce to empty lines leave the <text> elements to be tried;   *)
(* when neither yields a line the result is the empty list; every line     *)
(* returned is non-empty and has no leading or trailing whitespace.        *)
(***************************************************************************)
\* the non-empty lines of the elements with one of the tags, in order
LinesOf(els, tags) ==
    non_empty([k \in 1..Len(els) |->
                  IF els[k].tag \in tags THEN strip(decode(ElementText(els[k]))) ELSE <<>>])

C18_FirstDialectWins ==
    xpc = "return" =>
        /\ lines_out = IF LinesOf(payload, {"spans", "plain"}) # <<>>
                       THEN LinesOf(payload, {"spans", "plain"})
                       ELSE LinesOf(payload, {"text"})
        /\ \A k \in 1..Len(lines_out) :
              /\ lines_out[k] # <<>>
              /\ lines_out[k][1] \notin Whitespace
              /\ lines_out[k][Len(lines_out[k])] \notin Whitespace

\* a blank paragraph before a text element: the text element's line is returned
C18_Witness ==
    /\ xpc = "return"
    /\ payload = <<Element("plain", <<"blank">>), Element("text", <<"mixed">>)>>
    /\ lines_out = <<<<">", "\"", "'", "&", "<">>>>

(***************************************************************************)
(* C14: the manifest attempts (the 3rd to 10th of a request) go through    *)
(* the profiles IOS, ANDROID, TV_EMBED, WEB in that order, two attempts    *)
(* each and never a third; the second attempt of a profile is made exactly *)
(* when its first failed, whatever the failure, and is preceded by exactly *)
(* one sleep; no sleep precedes a first attempt; both attempts of a        *)
(* profile come before any attempt of the next.                            *)
(***************************************************************************)
ProfileOrder == <<"IOS", "ANDROID", "TV_EMBED", "WEB">>

\* the operations of the current attempt that are op
Ops(op) == {k \in 1..Len(calls) : calls[k].op = op}

\* the k-th attempt of a request is the second attempt of a profile
IsSecond(k) == k % 2 = 0

C14_RetryOncePerProfile ==
    /\ \A i \in 1..Len(logs) :
          logs[i].method = "2" =>
              /\ i \in 3..10
              /\ logs[i].name = ProfileOrder[(i - 1) \div 2]
              /\ logs[i].attempt = (IF IsSecond(i) THEN 2 ELSE 1)
              /\ logs[i].ok => (i = Len(logs) /\ pc = "done" /\ started = i)
    /\ started \in 3..10 =>
          /\ Cardinality(Ops("POST")) = 1
          /\ \A k \in Ops("POST") : calls[k].arg = ProfileOrder[(started - 1) \div 2]
          /\ IF IsSecond(started)
             THEN /\ Ops("sleep") = {1}
                  /\ Ops("POST") = {2}
                  /\ ~logs[started - 1].ok
                  /\ KeyOf(logs[started - 1]) = Key("2", ProfileOrder[(started - 1) \div 2], 1)
             ELSE /\ Ops("sleep") = {}
                  /\ Ops("POST") = {1}
    /\ (Len(logs) \in 3..10 /\ ~LastEntry.ok /\ ~IsSecond(Len(logs)) /\ started = Len(logs)) =>
          /\ pc = "m2"
          /\ attempt = 1
          /\ clients[c] = LastEntry.name

\* the second IOS attempt succeeded after the first had no caption track
C14_Witness ==
    /\ Len(logs) = 4
    /\ branch = "success"
    /\ ~logs[3].ok
    /\ KeyOf(logs[4]) = Key("2", "IOS", 2)
    /\ logs[4].ok
    /\ calls[1] = Sleep
    /\ Len(calls) = 3

(***************************************************************************)
(* C15: a manifest attempt applies its checks in the order HTTP status,    *)
(* playability status, caption-track list; the caption download is issued  *)
(* only after an answer with status 200, playability OK and a non-empty    *)
(* track list; an attempt issues at most one player request and at most    *)
(* one download, and a failed download ends the attempt without a retry.   *)
(***************************************************************************)
\* the player answer passed every check
PlayerAnswerGood(r) ==
    /\ r.kind = "body"
    /\ r.status = 200
    /\ r.json
    /\ r.playability = "OK"
    /\ r.tracks # <<>>

C15_State ==
    started \in 3..10 =>
        /\ Cardinality(Ops("POST")) <= 1
        /\ Cardinality(Ops("GET")) <= 1
        /\ pc = "m2dl" => (PlayerAnswerGood(upstream) /\ Ops("GET") = {})
        /\ (Ops("GET") = {} /\ upstream.kind = "body") =>
              /\ upstream.status # 200 => branch = "http"
              /\ (upstream.status = 200 /\ upstream.json /\ upstream.playability # "OK")
                    => branch = "notplayable"
              /\ (upstream.status = 200 /\ upstream.json /\ upstream.playability = "OK"
                     /\ upstream.tracks = <<>>) => branch = "notracks"
              /\ PlayerAnswerGood(upstream) => pc = "m2dl"
              /\ ~PlayerAnswerGood(upstream) => (pc # "m2dl" /\ Len(logs) = started)
        /\ (Ops("GET") # {} /\ branch \in FailureBranches) =>
              /\ Len(logs) = started
              /\ ~LastEntry.ok
              /\ pc \in {"m2", "m3"}

\* a step of a manifest attempt that issues the download starts from a
\* player answer that passed every check, and issues one GET
C15_Step ==
    (started' \in 3..10 /\ Ops("GET")' # {} /\ (started # started' \/ Ops("GET") = {})) =>
        /\ pc = "m2dl"
        /\ started' = started
        /\ PlayerAnswerGood(upstream)
        /\ Ops("GET")' = {Len(calls')}

C15_ChecksGateDownload == [](C15_State) /\ [][C15_Step]_vars

\* the download of the first IOS attempt failed with a 404: one GET, then
\* the second IOS attempt
C15_Witness ==
    /\ started = 3
    /\ Ops("POST") = {1}
    /\ Ops("GET") = {2}
    /\ branch = "download"
    /\ upstream.status = 404
    /\ pc = "m2"
    /\ attempt = 1

(***************************************************************************)
(* C17 as stated: each mirror is asked once in a request, and a mirror     *)
(* attempt succeeds whenever the chosen track is fetched with status 200   *)
(* and its payload yields at least one line; it falls through only when    *)
(* the fetch raises or fails or the payload yields no line.                *)
(***************************************************************************)
\* the requests of the current attempt that went to to
Sent(to) == {k \in 1..Len(calls) : calls[k].to = to}

\* the mirrors are the 11th to 14th attempts, one attempt and one listing
\* request each
MirrorsOnce ==
    /\ \A i \in 1..Len(logs) :
          logs[i].method = "3" => (i \in 11..14 /\ logs[i].name = MirrorOrder[i - 10])
    /\ started \in 11..14 =>
          /\ Sent("mirror") = {1}
          /\ calls[1].arg = MirrorOrder[started - 10]
          /\ Cardinality(Sent("caption")) <= 1
    /\ started > 14 => \A i \in 11..14 : i <= Len(logs) /\ logs[i].method = "3"

\* the handler has just dealt with the answer to the download of the track
\* a mirror listed
MirrorFetched ==
    /\ started \in 11..14
    /\ Sent("caption") # {}

MirrorSucceeded ==
    /\ pc = "done"
    /\ branch = "success"
    /\ response.status = 200
    /\ response.transcript = Returned(Produced(upstream))
    /\ LastEntry.ok
    /\ KeyOf(LastEntry) = Key("3", MirrorOrder[started - 10], 0)

MirrorFellThrough ==
    /\ branch \in {"parse", "exception"}
    /\ response = NoResponse
    /\ Len(logs) = started
    /\ ~LastEntry.ok
    /\ KeyOf(LastEntry) = Key("3", MirrorOrder[started - 10], 0)
    /\ IF started < 14 THEN pc = "m3" /\ api = started - 9 ELSE pc = "m4" /\ lang = 1

\* the download answered 200 with a payload that yields a line
FetchedLines ==
    /\ upstream.kind = "body"
    /\ upstream.status = 200
    /\ extract_texts(Render(upstream.doc)) # <<>>

C17_AnyLength ==
    /\ MirrorsOnce
    /\ MirrorFetched => IF FetchedLines THEN MirrorSucceeded ELSE MirrorFellThrough

(***************************************************************************)
(* C17 amended: the same with the length test: the attempt succeeds when   *)
(* the payload is also longer than 50 characters, and falls through when   *)
(* the fetch raises or fails, the payload has at most 50 characters or it  *)
(* yields no line.                                                         *)
(***************************************************************************)
C17_LongerThan50 ==
    /\ MirrorsOnce
    /\ MirrorFetched =>
          IF FetchedLines /\ Len(Render(upstream.doc)) > 50
          THEN MirrorSucceeded
          ELSE MirrorFellThrough

\* Invidious1 lists a relative url, the completed url is fetched and the
\* payload of one long paragraph is returned
C17_Witness ==
    /\ started = 12
    /\ MirrorFetched
    /\ calls[2] = Call("3", "GET", "caption", "base/rel")
    /\ upstream.kind = "body"
    /\ upstream.doc = [dialect |-> "p", elems |-> <<"long">>]
    /\ response.status = 200
    /\ response.transcript = ContentText["long"]

(***************************************************************************)
(* C16 as stated: every outbound call has a timeout, so an upstream that   *)
(* never answers is a failure of the one attempt and every request that    *)
(* has started is answered in the end, with the 200 or with the 404.       *)
(***************************************************************************)
C16_EveryRequestAnswered == (pc = "m1") ~> (pc = "done")

(***************************************************************************)
(* C20: the debug flag does not steer the resolution: two requests for the *)
(* same video against the same upstream answers, one with debug on and one *)
(* with debug off, issue the same outbound calls in the same order, build  *)
(* the same logs, end in the same attempt with the same status, and the    *)
(* transcript of the debug request is the first 200 characters (all of it  *)
(* when shorter) of the transcript of the other.                           *)
(***************************************************************************)
IsPrefix(s, t) == Len(s) <= Len(t) /\ SubSeq(t, 1, Len(s)) = s

Prefix200(t) == SubSeq(t, 1, IF Len(t) > 200 THEN 200 ELSE Len(t))

\* of the two responses, the one of the debug request and the other one
VerboseResponse == IF debug THEN response ELSE first.response
QuietResponse == IF debug THEN first.response ELSE response

C20_DebugDoesNotSteer ==
    run = 2 =>
        /\ debug = ~first.debug
        /\ IsPrefix(allcalls, first.calls)
        /\ IsPrefix(logs, first.logs)
        /\ pc = "done" =>
              /\ allcalls = first.calls
              /\ logs = first.logs
              /\ response.status = first.status
              /\ response.status \in {200, 404}
              /\ response.status = 200 =>
                    /\ VerboseResponse.transcript = Prefix200(QuietResponse.transcript)
                    /\ VerboseResponse.video_id = QuietResponse.video_id

\* both requests succeed at the lang=en timed-text attempt; the transcript
\* has 203 characters, the debug request returns 200 of them
C20_Witness ==
    /\ run = 2
    /\ pc = "done"
    /\ debug
    /\ Len(logs) = 16
    /\ response.status = 200
    /\ Len(first.response.transcript) = 203
    /\ Len(response.transcript) = 200

(***************************************************************************)
(* C19: requests share no state: however the attempts of two workers       *)
(* interleave, and whatever requests a worker has handled before, a        *)
(* request starts with empty logs, its logs hold the entries of its own    *)
(* attempts and nothing else, the profiles are tried in the one registry   *)
(* order, and its logs and response are those of a request that runs alone *)
(* and is fed the same outcomes.                                           *)
(***************************************************************************)
\* the logs of a request that runs alone and meets the outcomes fed
AloneLogs(fed) ==
    [i \in 1..Len(fed) |->
        [method |-> FixedOrder[i].method, name |-> FixedOrder[i].name,
         attempt |-> FixedOrder[i].attempt, ok |-> fed[i].ok,
         chars |-> IF fed[i].ok THEN Len(fed[i].text) ELSE 0]]

\* the response of a request that runs alone and meets the outcomes fed
AloneResponse(vid, dbg, fed) ==
    IF fed = <<>> THEN [status |-> 0]
    ELSE IF fed[Len(fed)].ok
         THEN IF dbg
              THEN [status |-> 200, transcript |-> Prefix200(fed[Len(fed)].text),
                    debug |-> AloneLogs(fed), video_id |-> vid]
              ELSE [status |-> 200, transcript |-> fed[Len(fed)].text, video_id |-> vid]
    ELSE IF Len(fed) = TotalAttempts
         THEN IF dbg THEN [status |-> 404, error |-> "No captions", debug |-> AloneLogs(fed)]
              ELSE [status |-> 404, error |-> "No captions available"]
    ELSE [status |-> 0]

C19_NoSharedState ==
    \A w \in DOMAIN workers :
        /\ workers[w].k = 0 => workers[w].logs = <<>>
        /\ Len(workers[w].logs) = workers[w].k
        /\ Len(workers[w].fed) = workers[w].k
        /\ workers[w].k <= TotalAttempts
        /\ \A i \in 1..(Len(workers[w].fed) - 1) : ~workers[w].fed[i].ok
        /\ workers[w].logs = AloneLogs(workers[w].fed)
        /\ workers[w].response
              = AloneResponse(workers[w].video_id, workers[w].debug, workers[w].fed)

\* worker 1 answers its request at the first IOS attempt after its previous
\* request ended in the 404, while worker 2 is before the last attempt of
\* a request for the other video
C19_Witness ==
    /\ workers[1].prev_failed
    /\ workers[1].response.status = 200
    /\ workers[1].k = 3
    /\ workers[1].debug
    /\ workers[2].pc = "run"
    /\ workers[2].k = 17
    /\ workers[2].video_id # workers[1].video_id

(***************************************************************************)
(* C21: logs holds at most one success entry; a success entry is the last  *)
(* entry and the step that writes it is the successful return, so every    *)
(* entry before it is a failure entry, nothing is appended after it, and   *)
(* the logs of a request that ends in the 404 hold no success entry.       *)
(***************************************************************************)
\* the positions of the success entries of logs
SuccessEntries == {k \in 1..Len(logs) : logs[k].ok}

C21_State ==
    /\ Cardinality(SuccessEntries) <= 1
    /\ SuccessEntries \subseteq {Len(logs)}
    /\ SuccessEntries # {} =>
          /\ pc = "done"
          /\ response.status = 200
          /\ \A k \in 1..(Len(logs) - 1) : ~logs[k].ok
    /\ response.status = 404 => SuccessEntries = {}
    /\ response.status = 200 => SuccessEntries = {Len(logs)}

\* the step that appends a success entry returns the 200, and no step
\* appends to logs that hold a success entry
C21_Step ==
    /\ (SuccessEntries = {} /\ SuccessEntries' # {}) =>
          /\ logs' = Append(logs, logs'[Len(logs')])
          /\ pc' = "done"
          /\ response'.status = 200
    /\ (SuccessEntries # {} /\ logs' # logs) => logs' = <<>>

C21_SuccessEntryIsLast == [](C21_State) /\ [][C21_Step]_vars

\* the second WEB attempt succeeds after nine failure entries
C21_Witness ==
    /\ Len(logs) = 10
    /\ SuccessEntries = {10}
    /\ pc = "done"
    /\ response.status = 200

=============================================================================
